---- MODULE Spec2Model ----
(***************************************************************************)
(* Model of the stable_pool contract (contracts/stable_pool/src).          *)
(*                                                                         *)
(* The contract's amounts are 128-bit unsigned integers (Uint128 / u128)   *)
(* and its proportional computations use 256-bit ones (U256).  TLC's       *)
(* integers are 32 bits wide, so an amount is modelled as a natural number *)
(* written in limbs: a sequence of digits in base 10^4, least significant  *)
(* first, without leading zero limbs (zero is the empty sequence).  Every  *)
(* arithmetic step of the contract is computed on that representation at   *)
(* its real width: u128 results are compared with 2^128 and, where the     *)
(* build wraps, reduced modulo 2^128.                                      *)
(*                                                                         *)
(* A response is the handler's result (Ok, Err, or a panic that aborts the *)
(* call) with the instructions it carries; the log entries of a response   *)
(* are left out.  `round_down_pool_answer_to_nearest` is set by init but   *)
(* is no field of Config or InitMsg in msg.rs and is left out as well.     *)
(* try_swap ends in names it never defines (return_asset, to); its         *)
(* response is the transfer of dst_amount of the destination token to the  *)
(* recipient.  try_withdraw_liquidity reads a pair_info record, the pool   *)
(* balances and the share supply through helpers that are not among the    *)
(* sources; what they return are inputs of the request here.               *)
(***************************************************************************)
EXTENDS Integers, Sequences, FiniteSets, TLC

----------------------------------------------------------------------------
(* Natural numbers of arbitrary size *)

Base == 100 * 100

Limb(a, i) == IF i <= Len(a) THEN a[i] ELSE 0

Norm(a) ==
    LET nz == {i \in 1..Len(a) : a[i] # 0}
    IN  IF nz = {} THEN <<>>
        ELSE SubSeq(a, 1, CHOOSE i \in nz : \A j \in nz : j <= i)

Big(n) == Norm(<<n % Base, (n \div Base) % Base, n \div (Base * Base)>>)

BigLt(a, b) ==
    \/ Len(a) < Len(b)
    \/ /\ Len(a) = Len(b)
       /\ \E i \in 1..Len(a) : a[i] < b[i] /\ \A j \in (i + 1)..Len(a) : a[j] = b[j]

BigLeq(a, b) == ~BigLt(b, a)

(* Schoolbook addition; the carry into limb i is decided by the nearest    *)
(* lower limb whose digit sum is not Base - 1.                             *)
BigAdd(a, b) ==
    LET n == (IF Len(a) > Len(b) THEN Len(a) ELSE Len(b)) + 1
        s == [i \in 1..n |-> Limb(a, i) + Limb(b, i)]
        c == [i \in 1..n |->
                IF \E j \in 1..(i - 1) :
                      s[j] >= Base /\ \A k \in (j + 1)..(i - 1) : s[k] = Base - 1
                THEN 1 ELSE 0]
    IN  Norm([i \in 1..n |-> (s[i] + c[i]) % Base])

(* a - b for a >= b, with the borrow decided the same way. *)
BigSub(a, b) ==
    LET n == Len(a)
        t == [i \in 1..n |-> a[i] - Limb(b, i)]
        w == [i \in 1..n |->
                IF \E j \in 1..(i - 1) :
                      t[j] < 0 /\ \A k \in (j + 1)..(i - 1) : t[k] = 0
                THEN 1 ELSE 0]
    IN  Norm([i \in 1..n |-> (t[i] - w[i] + Base) % Base])

ShiftLimbs(a, k) == [i \in 1..k |-> 0] \o a

MulSmall(a, d) ==
    LET p == [i \in 1..Len(a) |-> a[i] * d]
    IN  BigAdd([i \in 1..Len(a) |-> p[i] % Base],
               ShiftLimbs([i \in 1..Len(a) |-> p[i] \div Base], 1))

RECURSIVE ColumnSum(_, _, _, _)
ColumnSum(a, b, k, i) ==
    IF i > Len(a) \/ i > k THEN 0
    ELSE a[i] * b[k - i + 1] + ColumnSum(a, b, k, i + 1)

(* Schoolbook multiplication: column sums (each below 2^31 for operands of *)
(* up to 21 limbs), split into three limbs and added up.                   *)
BigMul(a, b) ==
    IF a = <<>> \/ b = <<>> THEN <<>>
    ELSE LET n   == Len(a) + Len(b) - 1
             lo(k) == IF k > Len(b) THEN k - Len(b) + 1 ELSE 1
             col == [k \in 1..n |-> ColumnSum(a, b, k, lo(k))]
         IN  BigAdd(BigAdd([k \in 1..n |-> col[k] % Base],
                           ShiftLimbs([k \in 1..n |-> (col[k] \div Base) % Base], 1)),
                    ShiftLimbs([k \in 1..n |-> col[k] \div (Base * Base)], 2))

(* Quotient digit of cur / bn for cur < bn * Base and a divisor whose top  *)
(* limb is at least Base / 2: the estimate from the top limbs is at most   *)
(* two too large.                                                          *)
QDigit(cur, bn) ==
    IF BigLt(cur, bn) THEN 0
    ELSE LET n    == Len(bn)
             u    == Limb(cur, n + 1) * Base + cur[n]
             e    == u \div bn[n]
             qhat == IF e > Base - 1 THEN Base - 1 ELSE e
         IN  IF BigLeq(MulSmall(bn, qhat), cur) THEN qhat
             ELSE IF BigLeq(MulSmall(bn, qhat - 1), cur) THEN qhat - 1
             ELSE qhat - 2

(* Long division, most significant quotient digit first. *)
RECURSIVE DivDigits(_, _, _, _)
DivDigits(an, bn, i, r) ==
    IF i = 0 THEN <<>>
    ELSE LET cur == Norm(<<an[i]>> \o r)
             d   == QDigit(cur, bn)
         IN  <<d>> \o DivDigits(an, bn, i - 1, BigSub(cur, MulSmall(bn, d)))

(* floor(a / b) for b # 0 *)
BigDiv(a, b) ==
    LET f  == Base \div (b[Len(b)] + 1)
        an == MulSmall(a, f)
        bn == MulSmall(b, f)
        qs == DivDigits(an, bn, Len(an), <<>>)
    IN  Norm([i \in 1..Len(qs) |-> qs[Len(qs) + 1 - i]])

BigMod(a, b) == BigSub(a, BigMul(BigDiv(a, b), b))

IntPow10(r) == IF r = 0 THEN 1 ELSE IF r = 1 THEN 10 ELSE IF r = 2 THEN 100 ELSE 1000

Pow10(k) == ShiftLimbs(<<IntPow10(k % 4)>>, k \div 4)

TwoPow128 == <<1456, 6821, 4317, 4607, 6337, 4634, 938, 6692, 2823, 340>>
TwoPow127 == <<5728, 8410, 7158, 7303, 3168, 2317, 469, 8346, 1411, 170>>
U128Max == BigSub(TwoPow128, <<1>>)

----------------------------------------------------------------------------
(* Fixed-width arithmetic of the contract *)

Zero == <<>>

IsZero(a) == a = <<>>

FitsU128(a) == BigLt(a, TwoPow128)

(* The outcome of a u128 operation: a value, or a panic *)
Value(v) == [panic |-> FALSE, value |-> v, why |-> ""]

Abort(why) == [panic |-> TRUE, value |-> Zero, why |-> why]

(* u128 `*` (contract.rs:414, 420).  Overflowing u128 arithmetic panics in *)
(* a build with overflow checks and wraps modulo 2^128 in one without; the *)
(* build profile is not part of the source, so a request is evaluated      *)
(* under either.                                                           *)
U128Mul(a, b, overflow_checks) ==
    LET p == BigMul(a, b)
    IN  IF FitsU128(p) THEN Value(p)
        ELSE IF overflow_checks THEN Abort("attempt to multiply with overflow")
        ELSE Value(BigMod(p, TwoPow128))

(* Uint128 `+=` (contract.rs:290): a plain u128 addition *)
U128Add(a, b, overflow_checks) ==
    LET s == BigAdd(a, b)
    IN  IF FitsU128(s) THEN Value(s)
        ELSE IF overflow_checks THEN Abort("attempt to add with overflow")
        ELSE Value(BigSub(s, TwoPow128))

(* u128 `/` (contract.rs:411, 420): division by zero panics in every build *)
U128Div(a, b) ==
    IF IsZero(b) THEN Abort("attempt to divide by zero")
    ELSE Value(BigDiv(a, b))

(* u128::checked_mul (contract.rs:282) *)
CheckedMul(a, b) ==
    LET p == BigMul(a, b)
    IN  IF FitsU128(p) THEN [some |-> TRUE, value |-> p]
        ELSE [some |-> FALSE, value |-> Zero]

(* u256_math::mul and u256_math::div on Option<U256> (the module is not    *)
(* among the sources): None when an operand is None, when the product does *)
(* not fit 256 bits, or when the divisor is zero.                          *)
TwoPow256 == BigMul(TwoPow128, TwoPow128)

None == [some |-> FALSE, value |-> Zero]

Some(v) == [some |-> TRUE, value |-> v]

mul(a, b) ==
    IF ~a.some \/ ~b.some THEN None
    ELSE LET p == BigMul(a.value, b.value)
         IN  IF BigLt(p, TwoPow256) THEN Some(p) ELSE None

div(a, b) ==
    IF ~a.some \/ ~b.some THEN None
    ELSE IF IsZero(b.value) THEN None
    ELSE Some(BigDiv(a.value, b.value))

(* U256::low_u128 (contract.rs:347) *)
low_u128(a) == IF FitsU128(a) THEN a ELSE BigMod(a, TwoPow128)

----------------------------------------------------------------------------
(* The world around the contract *)

MaxAssets == 2
MaxDeposits == 2

MaxDecimals == 18

DefaultAddr == ""

Tokens == <<"tokA", "tokB", "tokC", "tokX">>

(* What each token contract answers to a token_info query *)
query_token_decimals(address) ==
    CASE address = "tokA" -> 6
      [] address = "tokB" -> 18
      [] address = "tokC" -> 18
      [] address = "tokX" -> 19

code_hash_of(address) == <<"hash", address>>

Senders == {"lp", "user"}

InitialViewingKey == "vk"

LpTokenCodeHash == "lp_hash"

(* The asset lists an InitMsg may carry: tokens in the order of Tokens,    *)
(* at most MaxAssets of them.                                              *)
RECURSIVE Picks(_, _)
Picks(i, n) ==
    IF i > Len(Tokens) \/ n = 0 THEN {<<>>}
    ELSE Picks(i + 1, n)
         \cup {<<[address |-> Tokens[i], code_hash |-> code_hash_of(Tokens[i])]>> \o p :
                 p \in Picks(i + 1, n - 1)}

AssetLists == Picks(1, MaxAssets)

Fees == { [nom |-> Big(997), denom |-> Big(1000)],
          [nom |-> Big(3), denom |-> Big(2)],
          [nom |-> Big(1), denom |-> Zero] }

InitMsgs ==
    { [assets |-> a, initial_tokens_viewing_key |-> InitialViewingKey,
       lp_token_code_hash |-> LpTokenCodeHash, admin |-> "admin",
       swap_fee_nom |-> f.nom, swap_fee_denom |-> f.denom, is_halted |-> h] :
      a \in AssetLists, f \in Fees, h \in BOOLEAN }

----------------------------------------------------------------------------
(* Contract state: the two storage singletons of state.rs, and the request *)
(* being answered with its response.                                       *)

VARIABLES all_assets, config, request, response

vars == <<all_assets, config, request, response>>

NotStored == [stored |-> FALSE]

NoRequest == [op |-> "none"]

NoResponse == [result |-> "none", error |-> "", messages |-> <<>>]

Ok(messages) == [result |-> "Ok", error |-> "", messages |-> messages]

Err(error) == [result |-> "Err", error |-> error, messages |-> <<>>]

Panic(error) == [result |-> "Panic", error |-> error, messages |-> <<>>]

store_all_assets(assets) == [stored |-> TRUE, value |-> assets]

store_config(c) == [stored |-> TRUE, value |-> c]

Init ==
    /\ all_assets = NotStored
    /\ config = NotStored
    /\ request = NoRequest
    /\ response = NoResponse

----------------------------------------------------------------------------
(* init *)

FeeDenomIsZero_unchecked(msg) == FALSE

FeeDenomIsZero(msg) == IsZero(msg.swap_fee_denom)

DecimalsExceeded_offByOne(decimals) == decimals > MaxDecimals + 1

DecimalsExceeded(decimals) == decimals > MaxDecimals

set_viewing_key_msg(token) == [kind |-> "set_viewing_key", token |-> token.address]

register_receive_msg(address) == [kind |-> "register_receive", token |-> address]

InstantiateLpMsg(msg) == [kind |-> "instantiate", code_hash |-> msg.lp_token_code_hash]

(* The loop over msg.assets (contract.rs:39-72): the token list built so   *)
(* far, or the error at the first token with too many decimals.            *)
RECURSIVE SetupTokens(_, _, _, _)
SetupTokens(msg, i, messages, assets) ==
    IF i > Len(msg.assets) THEN [ok |-> TRUE, messages |-> messages, assets |-> assets]
    ELSE LET token    == msg.assets[i]
             decimals == query_token_decimals(token.address)
         IN  IF DecimalsExceeded(decimals)
             THEN [ok |-> FALSE, messages |-> <<>>, assets |-> <<>>]
             ELSE SetupTokens(msg, i + 1,
                      messages \o <<set_viewing_key_msg(token),
                                    register_receive_msg(token.address)>>,
                      Append(assets, [address |-> token.address,
                                      code_hash |-> token.code_hash,
                                      viewing_key |-> msg.initial_tokens_viewing_key,
                                      decimals |-> decimals]))

InitialConfig(msg) ==
    [admin |-> msg.admin,
     swap_fee_nom |-> msg.swap_fee_nom,
     swap_fee_denom |-> msg.swap_fee_denom,
     is_halted |-> msg.is_halted,
     lp_token_address |-> DefaultAddr,
     lp_token_code_hash |-> msg.lp_token_code_hash]

InitContract ==
    /\ config = NotStored
    /\ response = NoResponse
    /\ \E msg \in InitMsgs :
         /\ request' = [op |-> "Init", msg |-> msg]
         /\ IF FeeDenomIsZero(msg)
            THEN /\ response' = Err("swap_fee_denom cannot be zero")
                 /\ UNCHANGED <<all_assets, config>>
            ELSE LET setup == SetupTokens(msg, 1, <<>>, <<>>)
                 IN  IF ~setup.ok
                     THEN /\ response' = Err("Decimals must not exceed 18")
                          /\ UNCHANGED <<all_assets, config>>
                     ELSE /\ all_assets' = store_all_assets(setup.assets)
                          /\ config' = store_config(InitialConfig(msg))
                          /\ response' = Ok(Append(setup.messages, InstantiateLpMsg(msg)))

----------------------------------------------------------------------------
(* handle: the contract exists once init has succeeded *)

Ready == config # NotStored /\ response = NoResponse

read_all_assets == all_assets.value

read_config == config.value

(* try_post_initialize *)

AlreadyBound_never(c) == FALSE

AlreadyBound(c) == c.lp_token_address # DefaultAddr

PostInitialize ==
    /\ Ready
    /\ \E sender \in Senders :
         /\ request' = [op |-> "PostInitialize", sender |-> sender]
         /\ IF AlreadyBound(read_config)
            THEN /\ response' = Err("unauthorized")
                 /\ UNCHANGED <<all_assets, config>>
            ELSE LET c == [read_config EXCEPT !.lp_token_address = sender]
                 IN  /\ config' = store_config(c)
                     /\ response' = Ok(<<register_receive_msg(c.lp_token_address)>>)
                     /\ UNCHANGED all_assets

----------------------------------------------------------------------------
(* try_provide_liquidity *)

IsSupported(supported_tokens, address) ==
    \E i \in 1..Len(supported_tokens) : supported_tokens[i].address = address

(* Iterator::find: the first entry with the address, if any *)
Find(supported_tokens, address) ==
    LET hits == {i \in 1..Len(supported_tokens) : supported_tokens[i].address = address}
    IN  IF hits = {} THEN [found |-> FALSE]
        ELSE [found |-> TRUE,
              token |-> supported_tokens[CHOOSE i \in hits : \A j \in hits : i <= j]]

transfer_from_msg(owner, deposit) ==
    [kind |-> "transfer_from", token |-> deposit.address, owner |-> owner,
     amount |-> deposit.amount]

mint_msg(recipient, amount, c) ==
    [kind |-> "mint", token |-> c.lp_token_address, recipient |-> recipient,
     amount |-> amount]

(* First loop (contract.rs:236-259): one TransferFrom per deposit, or the  *)
(* error at the first deposit of a token that is not supported.            *)
RECURSIVE CollectDeposits(_, _, _, _, _)
CollectDeposits(supported_tokens, sender, assets_deposits, i, messages) ==
    IF i > Len(assets_deposits) THEN [ok |-> TRUE, messages |-> messages]
    ELSE IF ~IsSupported(supported_tokens, assets_deposits[i].address)
         THEN [ok |-> FALSE, messages |-> <<>>]
         ELSE CollectDeposits(supported_tokens, sender, assets_deposits, i + 1,
                              Append(messages, transfer_from_msg(sender, assets_deposits[i])))

NormalizeFactor(decimals) == Pow10(MaxDecimals - decimals)

(* Second loop (contract.rs:268-291): the share is the sum of the deposits *)
(* normalized to 18 decimals.                                              *)
RECURSIVE SumShares(_, _, _, _, _)
SumShares(supported_tokens, assets_deposits, i, share, overflow_checks) ==
    IF i > Len(assets_deposits) THEN [result |-> "Ok", share |-> share, why |-> ""]
    ELSE LET f == Find(supported_tokens, assets_deposits[i].address)
         IN  IF ~f.found
             THEN [result |-> "Panic", share |-> Zero,
                   why |-> "called Option::unwrap() on a None value"]
             ELSE LET normalized_deposit ==
                          CheckedMul(assets_deposits[i].amount, NormalizeFactor(f.token.decimals))
                  IN  IF ~normalized_deposit.some
                      THEN [result |-> "Err", share |-> Zero, why |-> ""]
                      ELSE LET sum == U128Add(share, normalized_deposit.value, overflow_checks)
                           IN  IF sum.panic
                               THEN [result |-> "Panic", share |-> Zero, why |-> sum.why]
                               ELSE SumShares(supported_tokens, assets_deposits, i + 1,
                                              sum.value, overflow_checks)

(* A variant that passes over the deposits of unsupported tokens *)
try_provide_liquidity_skipping(supported_tokens, c, sender, assets_deposits, overflow_checks) ==
    LET kept      == SelectSeq(assets_deposits,
                               LAMBDA d : IsSupported(supported_tokens, d.address))
        collected == CollectDeposits(supported_tokens, sender, kept, 1, <<>>)
        s         == SumShares(supported_tokens, kept, 1, Zero, overflow_checks)
    IN  CASE s.result = "Err" -> Err("Cannot normalize token deposit for 18 decimals")
          [] s.result = "Panic" -> Panic(s.why)
          [] s.result = "Ok" ->
               Ok(Append(collected.messages, mint_msg(sender, s.share, c)))

try_provide_liquidity(supported_tokens, c, sender, assets_deposits, overflow_checks) ==
    LET collected == CollectDeposits(supported_tokens, sender, assets_deposits, 1, <<>>)
    IN  IF ~collected.ok THEN Err("Token not supported")
        ELSE LET s == SumShares(supported_tokens, assets_deposits, 1, Zero, overflow_checks)
             IN  CASE s.result = "Err" -> Err("Cannot normalize token deposit for 18 decimals")
                   [] s.result = "Panic" -> Panic(s.why)
                   [] s.result = "Ok" ->
                        Ok(Append(collected.messages, mint_msg(sender, s.share, c)))

DepositTokens == {"tokA", "tokB", "tokX"}

DepositAmounts == {Big(100), TwoPow127}

TokenAmounts ==
    { [address |-> t, code_hash |-> code_hash_of(t), amount |-> a] :
      t \in DepositTokens, a \in DepositAmounts }

RECURSIVE SeqsUpTo(_, _)
SeqsUpTo(S, n) ==
    IF n = 0 THEN {<<>>}
    ELSE LET shorter == SeqsUpTo(S, n - 1)
         IN  shorter \cup {Append(s, x) : s \in {t \in shorter : Len(t) = n - 1}, x \in S}

DepositLists == SeqsUpTo(TokenAmounts, MaxDeposits)

ProvideLiquidity ==
    /\ Ready
    /\ \E sender \in {"user"}, assets_deposits \in DepositLists,
          cancel_if_no_bonus \in {FALSE}, overflow_checks \in BOOLEAN :
         /\ request' = [op |-> "ProvideLiquidity", sender |-> sender,
                        assets |-> assets_deposits,
                        cancel_if_no_bonus |-> cancel_if_no_bonus]
         /\ response' = try_provide_liquidity(read_all_assets, read_config, sender,
                                              assets_deposits, overflow_checks)
         /\ UNCHANGED <<all_assets, config>>

----------------------------------------------------------------------------
(* receive_snip20: Swap *)

transfer_msg(token, recipient, amount) ==
    [kind |-> "transfer", token |-> token, recipient |-> recipient, amount |-> amount]

(* Normalize amount (contract.rs:408-415) *)
ConvertDecimals(src_amount, src_decimals, dst_decimals, overflow_checks) ==
    IF src_decimals > dst_decimals
    THEN U128Div(src_amount, Pow10(src_decimals - dst_decimals))
    ELSE IF dst_decimals > src_decimals
    THEN U128Mul(src_amount, Pow10(dst_decimals - src_decimals), overflow_checks)
    ELSE Value(src_amount)

(* Take fee (contract.rs:420) *)
TakeFee(dst_amount, c, overflow_checks) ==
    LET product == U128Mul(dst_amount, c.swap_fee_nom, overflow_checks)
    IN  IF product.panic THEN product
        ELSE U128Div(product.value, c.swap_fee_denom)

try_swap(supported_tokens, c, src_amount, src_token, dst_token, recipient, overflow_checks) ==
    LET src == Find(supported_tokens, src_token)
        dst == Find(supported_tokens, dst_token)
    IN  IF ~src.found \/ ~dst.found
        THEN Panic("called Option::unwrap() on a None value")
        ELSE LET converted == ConvertDecimals(src_amount, src.token.decimals,
                                              dst.token.decimals, overflow_checks)
             IN  IF converted.panic THEN Panic(converted.why)
                 ELSE LET dst_amount == TakeFee(converted.value, c, overflow_checks)
                      IN  IF dst_amount.panic THEN Panic(dst_amount.why)
                          ELSE Ok(<<transfer_msg(dst.token.address, recipient,
                                                 dst_amount.value)>>)

receive_swap(supported_tokens, c, receive_token_address, sender, amount, to_token, recipient, overflow_checks) ==
    IF ~IsSupported(supported_tokens, receive_token_address)
    THEN Err("Unknown source asset")
    ELSE IF ~IsSupported(supported_tokens, to_token)
    THEN Err("Unknown destination asset")
    ELSE try_swap(supported_tokens, c, amount, receive_token_address, to_token,
                  IF recipient.some THEN recipient.value ELSE sender, overflow_checks)

SwapSenders == {Tokens[i] : i \in 1..Len(Tokens)} \cup {"user"}

SwapTargets == {Tokens[i] : i \in 1..Len(Tokens)}

SwapAmounts == {Zero, Pow10(6), TwoPow127, U128Max}

Recipients == {[some |-> FALSE, value |-> DefaultAddr], [some |-> TRUE, value |-> "bob"]}

ReceiveSwap ==
    /\ Ready
    /\ \E receive_token_address \in SwapSenders, to_token \in SwapTargets,
          amount \in SwapAmounts, recipient \in Recipients, overflow_checks \in BOOLEAN :
         /\ request' = [op |-> "Swap", sender |-> receive_token_address, from |-> "user",
                        amount |-> amount, to_token |-> to_token, recipient |-> recipient]
         /\ response' = receive_swap(read_all_assets, read_config, receive_token_address,
                                     "user", amount, to_token, recipient, overflow_checks)
         /\ UNCHANGED <<all_assets, config>>

----------------------------------------------------------------------------
(* receive_snip20: WithdrawLiquidity *)

(* try_withdraw_liquidity takes the share token from a pair_info record    *)
(* (contract.rs:316), not from the config.  read_pair_info and the type of *)
(* the record are not among the sources, and no handler of the contract    *)
(* writes such a record, so what the read returns is an input of the       *)
(* request: no record (the read fails), or a record whose liquidity_token  *)
(* is a canonical address that may or may not be the one bound in the      *)
(* config.                                                                 *)
Canonical(address) == <<"canonical", address>>

BadCanonical == <<"canonical">>

(* Api::human_address (contract.rs:317, 372): fails on an address that is  *)
(* not well formed.                                                        *)
human_address(canonical) ==
    IF Len(canonical) = 2 THEN [some |-> TRUE, value |-> canonical[2]]
    ELSE [some |-> FALSE, value |-> DefaultAddr]

NoPairInfo == [stored |-> FALSE, liquidity_token |-> BadCanonical, token_code_hash |-> ""]

PairInfoReads ==
    {NoPairInfo}
    \cup { [stored |-> TRUE, liquidity_token |-> t, token_code_hash |-> LpTokenCodeHash] :
             t \in {Canonical("lp"), Canonical("pair_lp"), BadCanonical} }

read_pair_info(pair_info) ==
    IF pair_info.stored THEN [some |-> TRUE, value |-> pair_info]
    ELSE [some |-> FALSE, value |-> NoPairInfo]

burn_msg(amount, liquidity_token) ==
    [kind |-> "burn", token |-> liquidity_token, amount |-> amount]

(* A variant whose product is cut to 128 bits before the division *)
WithdrawnAssetAmount_narrow(current_pool_amount, withdrawn_share_amount, total_share) ==
    div(Some(low_u128(BigMul(current_pool_amount, withdrawn_share_amount))),
        Some(total_share))

(* withdrawn_asset_amount = a.amount * amount / total_share (contract.rs:326-335) *)
WithdrawnAssetAmount(current_pool_amount, withdrawn_share_amount, total_share) ==
    div(mul(Some(current_pool_amount), Some(withdrawn_share_amount)), Some(total_share))

(* The pool balances and the share supply are what the token contracts     *)
(* report for this request (query_pools, query_token_total_supply); each   *)
(* of the reads and queries ends the call with an error when it fails.     *)
try_withdraw_liquidity(stored_pair_info, pools, total_supply, sender, amount) ==
    LET pair_info == read_pair_info(stored_pair_info)
    IN  IF ~pair_info.some THEN Err("pair_info not found")
        ELSE LET liquidity_addr == human_address(pair_info.value.liquidity_token)
             IN  IF ~liquidity_addr.some THEN Err("invalid canonical address")
                 ELSE IF ~pools.some THEN Err("query_pools failed")
                 ELSE IF ~total_supply.some
                 THEN Err("Tried to query a token with unavailable supply")
                 ELSE LET refund == [i \in 1..2 |->
                                       WithdrawnAssetAmount(pools.value[i].amount, amount,
                                                            total_supply.value)]
                      IN  IF \E i \in 1..2 : ~refund[i].some
                          THEN Err("Cannot calculate current_pool_amount * withdrawn_share_amount / total_share")
                          ELSE Ok(<<transfer_msg(pools.value[1].address, sender,
                                                 low_u128(refund[1].value)),
                                    transfer_msg(pools.value[2].address, sender,
                                                 low_u128(refund[2].value)),
                                    burn_msg(amount, liquidity_addr.value)>>)

(* A variant that hands every WithdrawLiquidity to try_withdraw_liquidity *)
receive_withdraw_liquidity_anySender(c, message_sender, stored_pair_info, pools, total_supply, sender, amount) ==
    try_withdraw_liquidity(stored_pair_info, pools, total_supply, sender, amount)

receive_withdraw_liquidity(c, message_sender, stored_pair_info, pools, total_supply, sender, amount) ==
    IF message_sender # c.lp_token_address
    THEN Err("Unknown liqudity token")
    ELSE try_withdraw_liquidity(stored_pair_info, pools, total_supply, sender, amount)

WithdrawAmounts == {Big(1), Big(3), U128Max}

TotalSupplies == {None, Some(Zero), Some(Big(3)), Some(U128Max)}

PoolBalances ==
    { <<[address |-> "tokA", amount |-> x], [address |-> "tokB", amount |-> y]>> :
      x \in {Big(7), U128Max}, y \in {Zero, Pow10(6)} }

PoolQueries == {[some |-> FALSE, value |-> <<>>]} \cup {Some(p) : p \in PoolBalances}

ReceiveWithdrawLiquidity ==
    /\ Ready
    /\ \E message_sender \in Senders, amount \in WithdrawAmounts,
          stored_pair_info \in PairInfoReads, pools \in PoolQueries,
          total_supply \in TotalSupplies :
         /\ request' = [op |-> "WithdrawLiquidity", sender |-> message_sender,
                        from |-> "user", amount |-> amount,
                        pair_info |-> stored_pair_info, pools |-> pools,
                        total_supply |-> total_supply]
         /\ response' = receive_withdraw_liquidity(read_config, message_sender,
                                                   stored_pair_info, pools, total_supply,
                                                   "user", amount)
         /\ UNCHANGED <<all_assets, config>>

----------------------------------------------------------------------------
(* HandleMsg::UpdateViewingKeys and query are todo!() *)

UpdateViewingKeys ==
    /\ Ready
    /\ request' = [op |-> "UpdateViewingKeys", sender |-> "user"]
    /\ response' = Panic("not yet implemented")
    /\ UNCHANGED <<all_assets, config>>

Query ==
    /\ Ready
    /\ \E msg \in {"GetConfig", "GetTokens", "GetPools", "GetMostNeededToken"} :
         request' = [op |-> "Query", msg |-> msg]
    /\ response' = Panic("not yet implemented")
    /\ UNCHANGED <<all_assets, config>>

(* The host takes the response of the finished request. *)
EndTx ==
    /\ response # NoResponse
    /\ request' = NoRequest
    /\ response' = NoResponse
    /\ UNCHANGED <<all_assets, config>>

Next ==
    \/ InitContract
    \/ PostInitialize
    \/ ProvideLiquidity
    \/ ReceiveSwap
    \/ ReceiveWithdrawLiquidity
    \/ UpdateViewingKeys
    \/ Query
    \/ EndTx

Spec == Init /\ [][Next]_vars

----------------------------------------------------------------------------
(* Properties *)

Stored == config # NotStored

Registry == all_assets.value

DecimalsOf(address) == Find(Registry, address).token.decimals

IsHandled(op) == request.op = op /\ response # NoResponse

(* The destination amount of the answered swap in unbounded integers:      *)
(* floor(S * fee_numerator / fee_denominator), S the source amount         *)
(* converted between the two tokens' decimals.                             *)
ExactConverted ==
    LET sd == DecimalsOf(request.sender)
        dd == DecimalsOf(request.to_token)
    IN  IF dd > sd THEN BigMul(request.amount, Pow10(dd - sd))
        ELSE IF sd > dd THEN BigDiv(request.amount, Pow10(sd - dd))
        ELSE request.amount

ExactSwapAmount ==
    BigDiv(BigMul(ExactConverted, config.value.swap_fee_nom), config.value.swap_fee_denom)

(* C1: a swap between two registered tokens either fails or transfers     *)
(* exactly floor(S * fee_numerator / fee_denominator), never a value       *)
(* wrapped modulo 2^128.                                                   *)
C1_SwapAmountExact ==
    (/\ IsHandled("Swap")
     /\ request.sender # request.to_token
     /\ response.result = "Ok")
        => response.messages[1].amount = ExactSwapAmount

RECURSIVE ExactShare(_, _)
ExactShare(deposits, i) ==
    IF i > Len(deposits) THEN Zero
    ELSE BigAdd(BigMul(deposits[i].amount,
                       Pow10(MaxDecimals - DecimalsOf(deposits[i].address))),
                ExactShare(deposits, i + 1))

(* C2: a liquidity provision that succeeds mints exactly the sum of        *)
(* amount * 10^(18 - decimals) over its deposits, never a wrapped sum.     *)
C2_ShareExact ==
    (IsHandled("ProvideLiquidity") /\ response.result = "Ok")
        => response.messages[Len(response.messages)].amount = ExactShare(request.assets, 1)

(* C3: while the pool is halted, ProvideLiquidity, Swap and                *)
(* WithdrawLiquidity fail with PoolHalted and emit no instruction.         *)
C3_HaltedRejects ==
    (/\ Stored
     /\ config.value.is_halted
     /\ response # NoResponse
     /\ request.op \in {"ProvideLiquidity", "Swap", "WithdrawLiquidity"})
        => /\ response.result = "Err"
           /\ response.error = "PoolHalted"
           /\ response.messages = <<>>

(* C4: the first PostInitialize binds the share token to its caller; every *)
(* later one is refused as unauthorized and changes nothing; once bound,   *)
(* the share-token address never changes.                                  *)
C4_PostInitializeOnce ==
    [][ /\ (request'.op = "PostInitialize" /\ response = NoResponse)
            => IF config.value.lp_token_address = DefaultAddr
               THEN /\ response'.result = "Ok"
                    /\ config' = store_config([config.value EXCEPT
                                                 !.lp_token_address = request'.sender])
               ELSE /\ response'.result = "Err"
                    /\ response'.error = "unauthorized"
                    /\ response'.messages = <<>>
                    /\ config' = config
                    /\ all_assets' = all_assets
        /\ (Stored /\ config.value.lp_token_address # DefaultAddr)
            => /\ config' # NotStored
               /\ config'.value.lp_token_address = config.value.lp_token_address
      ]_vars

C4_Witness ==
    /\ IsHandled("PostInitialize")
    /\ response.result = "Err"
    /\ config.value.lp_token_address # DefaultAddr
    /\ request.sender # config.value.lp_token_address

(* C5: a stored config never has fee_numerator > fee_denominator. *)
C5_FeeAtMostOne ==
    Stored => BigLeq(config.value.swap_fee_nom, config.value.swap_fee_denom)

WithdrawReadsSucceed ==
    /\ request.pair_info.stored
    /\ human_address(request.pair_info.liquidity_token).some
    /\ request.pools.some

(* C6: a withdrawal by the share token with share_amount <= supply, supply *)
(* > 0, whose reads of the pair record and of the pool balances succeed,   *)
(* refunds floor(pool_balance * share_amount / supply) of each asset,      *)
(* never more than the balance and the whole balance for the whole supply, *)
(* and burns the shares at the pair record's liquidity token; with a       *)
(* supply of zero it fails and emits nothing.                              *)
C6_WithdrawRefunds ==
    (/\ IsHandled("WithdrawLiquidity")
     /\ request.sender = config.value.lp_token_address
     /\ request.total_supply.some)
        => LET total == request.total_supply.value
               share == request.amount
           IN  IF IsZero(total)
               THEN response.result = "Err" /\ response.messages = <<>>
               ELSE (BigLeq(share, total) /\ WithdrawReadsSucceed)
                      => /\ response.result = "Ok"
                         /\ Len(response.messages) = 3
                         /\ response.messages[3] =
                              burn_msg(share, human_address(request.pair_info.liquidity_token).value)
                         /\ \A i \in 1..2 :
                              LET refund  == response.messages[i].amount
                                  pool    == request.pools.value[i].amount
                                  product == BigMul(pool, share)
                              IN  /\ response.messages[i].kind = "transfer"
                                  /\ response.messages[i].token = request.pools.value[i].address
                                  /\ BigLeq(BigMul(refund, total), product)
                                  /\ BigLt(product, BigMul(BigAdd(refund, Big(1)), total))
                                  /\ BigLeq(refund, pool)
                                  /\ (share = total => refund = pool)

C6_Witness ==
    /\ IsHandled("WithdrawLiquidity")
    /\ response.result = "Ok"
    /\ request.amount = Big(3)
    /\ request.total_supply = Some(U128Max)
    /\ request.pools.some
    /\ request.pools.value[1].amount = U128Max
    /\ response.messages[1].amount = Big(3)
    /\ ~FitsU128(BigMul(request.pools.value[1].amount, request.amount))

(* C7: init with a token of more than 18 decimals fails and stores         *)
(* nothing; every registered token has at most 18 decimals; the registry   *)
(* never changes once stored.                                              *)
C7_RegistryDecimals ==
    [][ /\ all_assets' # NotStored
            => \A i \in 1..Len(all_assets'.value) :
                 all_assets'.value[i].decimals <= MaxDecimals
        /\ (/\ request'.op = "Init"
            /\ \E i \in 1..Len(request'.msg.assets) :
                 query_token_decimals(request'.msg.assets[i].address) > MaxDecimals)
            => /\ response'.result = "Err"
               /\ all_assets' = NotStored
               /\ config' = NotStored
        /\ all_assets # NotStored => all_assets' = all_assets
      ]_vars

C7_Witness ==
    /\ IsHandled("Init")
    /\ Len(request.msg.assets) >= 2
    /\ query_token_decimals(request.msg.assets[1].address) <= MaxDecimals
    /\ query_token_decimals(request.msg.assets[2].address) > MaxDecimals
    /\ ~IsZero(request.msg.swap_fee_denom)
    /\ response.result = "Err"
    /\ all_assets = NotStored
    /\ config = NotStored

(* C8: a swap whose source or destination token is not registered, or      *)
(* whose source and destination are the same token, is rejected with an    *)
(* error and no transfer.                                                  *)
C8_SwapRejected ==
    (/\ IsHandled("Swap")
     /\ \/ ~IsSupported(Registry, request.sender)
        \/ ~IsSupported(Registry, request.to_token)
        \/ request.sender = request.to_token)
        => response.result = "Err" /\ response.messages = <<>>

HasUnsupported(deposits, registry) ==
    \E i \in 1..Len(deposits) : ~IsSupported(registry, deposits[i].address)

NormalizationOverflows(deposits, registry) ==
    \E i \in 1..Len(deposits) :
        /\ IsSupported(registry, deposits[i].address)
        /\ ~FitsU128(BigMul(deposits[i].amount,
                            Pow10(MaxDecimals
                                  - Find(registry, deposits[i].address).token.decimals)))

(* C9: a ProvideLiquidity with a token outside the registry at any         *)
(* position is refused with an error, and one whose normalization exceeds  *)
(* 128 bits fails; either way the response carries no transfer-from or     *)
(* mint instruction and the stored registry and config are unchanged.      *)
C9_ProvideAtomic ==
    [][ (request'.op = "ProvideLiquidity" /\ response = NoResponse)
          => /\ HasUnsupported(request'.assets, Registry)
                  => /\ response'.result = "Err"
                     /\ response'.error = "Token not supported"
             /\ NormalizationOverflows(request'.assets, Registry)
                  => response'.result \in {"Err", "Panic"}
             /\ response'.result # "Ok" => response'.messages = <<>>
             /\ all_assets' = all_assets
             /\ config' = config
      ]_vars

C9_Witness ==
    /\ IsHandled("ProvideLiquidity")
    /\ Len(request.assets) >= 2
    /\ IsSupported(Registry, request.assets[1].address)
    /\ ~IsSupported(Registry, request.assets[2].address)
    /\ response.result = "Err"
    /\ response.messages = <<>>

(* C10: init with a zero fee denominator fails and stores nothing; the fee *)
(* fields never change once stored; so a stored fee denominator is never   *)
(* zero and no swap divides by zero.                                       *)
C10_FeeDenomNonZero ==
    [][ /\ config' # NotStored => ~IsZero(config'.value.swap_fee_denom)
        /\ (request'.op = "Init" /\ IsZero(request'.msg.swap_fee_denom))
            => /\ response'.result = "Err"
               /\ all_assets' = NotStored
               /\ config' = NotStored
        /\ Stored
            => /\ config' # NotStored
               /\ config'.value.swap_fee_nom = config.value.swap_fee_nom
               /\ config'.value.swap_fee_denom = config.value.swap_fee_denom
        /\ request'.op = "Swap" => response'.error # "attempt to divide by zero"
      ]_vars

C10_Witness ==
    /\ IsHandled("Init")
    /\ IsZero(request.msg.swap_fee_denom)
    /\ response.result = "Err"
    /\ all_assets = NotStored
    /\ config = NotStored

IsPayout(m) == m.kind \in {"transfer", "burn"}

(* C11: a Receive carrying WithdrawLiquidity is processed only when the    *)
(* message sender is the share-token address stored in the config at that  *)
(* moment; from any other sender, before or after the share token is       *)
(* bound, it fails with an error, carries no refund or burn instruction    *)
(* and leaves the stored registry and config as they were.                 *)
C11_WithdrawOnlyFromShareToken ==
    [][ (request'.op = "WithdrawLiquidity" /\ response = NoResponse)
          => /\ request'.sender # config.value.lp_token_address
                  => /\ response'.result = "Err"
                     /\ response'.error = "Unknown liqudity token"
                     /\ response'.messages = <<>>
             /\ (\E i \in 1..Len(response'.messages) : IsPayout(response'.messages[i]))
                  => /\ request'.sender = config.value.lp_token_address
                     /\ response'.result = "Ok"
             /\ request'.sender = config.value.lp_token_address
                  => response'.error # "Unknown liqudity token"
             /\ all_assets' = all_assets
             /\ config' = config
      ]_vars

(* A full withdrawal that the bound share token would be paid out for,     *)
(* sent by another account.                                                *)
C11_Witness ==
    /\ IsHandled("WithdrawLiquidity")
    /\ config.value.lp_token_address # DefaultAddr
    /\ request.sender # config.value.lp_token_address
    /\ request.total_supply = Some(Big(3))
    /\ request.amount = Big(3)
    /\ WithdrawReadsSucceed
    /\ ~IsZero(request.pools.value[1].amount)
    /\ response.result = "Err"
    /\ response.messages = <<>>

====
